---- MODULE Spec2Model ----
(***************************************************************************)
(* A model of code_context/cli.py: path resolution, README discovery, file *)
(* collection with de-duplication, ordering and rendering.                 *)
(*                                                                         *)
(* Strings are sequences of chunks (a chunk stands for a run of            *)
(* characters); no chunk of Alphabet is a prefix of another, so comparing  *)
(* chunk sequences lexicographically by Rank is the code-point order of    *)
(* the strings they stand for. A path (pathlib.Path) is the sequence of    *)
(* its names below the anchor "/"; every path of the model is absolute.    *)
(***************************************************************************)
EXTENDS Integers, Sequences, FiniteSets, TLC

VARIABLES fs, paths, extension, raw, pc, tokens, tok, path_obj, current,
          readmes, processed_files, documents, next_index, output_lines,
          output_content

vars == <<fs, paths, extension, raw, pc, tokens, tok, path_obj, current,
          readmes, processed_files, documents, next_index, output_lines,
          output_content>>

(* ------------------------------ strings ------------------------------- *)

\* The chunks in code-point order (space, #, *, comma, dot, slash, upper
\* case, lower case).
Alphabet ==
    <<" ", "#", "*", ",", ".", "/", "HEAD", "README", "blob", "cfg", "env",
      "git", "gitignore", "head", "js", "main", "md", "missing", "proj",
      "py", "readme", "src", "tests", "u", "x">>

RankOf ==
    [c \in { Alphabet[k] : k \in 1..Len(Alphabet) } |->
        CHOOSE k \in 1..Len(Alphabet) : Alphabet[k] = c]

Rank(c) == RankOf[c]

RECURSIVE StrLess(_, _)
StrLess(s, t) ==
    IF t = <<>> THEN FALSE
    ELSE IF s = <<>> THEN TRUE
    ELSE IF Head(s) = Head(t) THEN StrLess(Tail(s), Tail(t))
    ELSE Rank(Head(s)) < Rank(Head(t))

EndsWith(s, suffix) ==
    /\ Len(suffix) <= Len(s)
    /\ SubSeq(s, Len(s) - Len(suffix) + 1, Len(s)) = suffix

StartsWith(s, prefix) ==
    /\ Len(prefix) <= Len(s)
    /\ SubSeq(s, 1, Len(prefix)) = prefix

LowerChunk(c) ==
    IF c = "README" THEN "readme" ELSE IF c = "HEAD" THEN "head" ELSE c

Lower(s) == [k \in 1..Len(s) |-> LowerChunk(s[k])]

RECURSIVE Strip(_)
Strip(s) ==
    IF s = <<>> THEN s
    ELSE IF Head(s) = " " THEN Strip(Tail(s))
    ELSE IF s[Len(s)] = " " THEN Strip(SubSeq(s, 1, Len(s) - 1))
    ELSE s

\* str.split(sep): always at least one piece; "" splits into [""].
RECURSIVE Split(_, _)
Split(s, sep) ==
    IF \A k \in 1..Len(s) : s[k] # sep THEN <<s>>
    ELSE LET k == CHOOSE j \in 1..Len(s) :
                      s[j] = sep /\ \A m \in 1..(j - 1) : s[m] # sep
         IN  <<SubSeq(s, 1, k - 1)>> \o Split(SubSeq(s, k + 1, Len(s)), sep)

\* sep.join(pieces)
RECURSIVE JoinWith(_, _)
JoinWith(pieces, sep) ==
    IF pieces = <<>> THEN <<>>
    ELSE IF Len(pieces) = 1 THEN pieces[1]
    ELSE pieces[1] \o <<sep>> \o JoinWith(Tail(pieces), sep)

RECURSIVE FnMatch(_, _)
FnMatch(name, pat) ==
    IF pat = <<>> THEN name = <<>>
    ELSE IF Head(pat) = "*"
         THEN \E k \in 0..Len(name) :
                  FnMatch(SubSeq(name, k + 1, Len(name)), Tail(pat))
    ELSE /\ name # <<>>
         /\ Head(name) = Head(pat)
         /\ FnMatch(Tail(name), Tail(pat))

(* ------------------------------- paths -------------------------------- *)

SelectNames(names) == SelectSeq(names, LAMBDA n : n # <<>> /\ n # <<".">>)

\* Path(string) of an absolute string: empty and "." names are dropped,
\* ".." names are kept.
PathOf(s) == SelectNames(Split(s, "/"))

\* str(path)
Str(p) == <<"/">> \o JoinWith(p, "/")

\* path / string: an argument that starts with "/" replaces the path.
PathJoin(p, s) ==
    IF StartsWith(s, <<"/">>) THEN PathOf(s) ELSE p \o PathOf(s)

Parent(p) == IF p = <<>> THEN p ELSE SubSeq(p, 1, Len(p) - 1)

\* len(Path(string).parts): the anchor "/" counts as a part.
Parts(s) == Len(PathOf(s)) + 1

Basename(s) == LET names == Split(s, "/") IN names[Len(names)]

Home == << <<"u">> >>

get_code_context_root == << <<"u">>, <<"src">> >>

ReadmeName == <<"README", ".", "md">>

DotDot == <<".", ".">>

(* ----------------------------- file system ---------------------------- *)

Proj == get_code_context_root \o << <<"proj">> >>

BaseFiles ==
    { get_code_context_root \o <<ReadmeName>>,
      Proj \o <<ReadmeName>>,
      Proj \o << <<"x", "README", ".", "md">> >>,
      Proj \o << <<"main", ".", "js">> >>,
      Proj \o << <<"blob">> >>,
      Proj \o << <<".", "git">>, <<"HEAD">> >> }

OptionalFiles ==
    { Proj \o << <<"env">>, ReadmeName >>,
      Proj \o << <<"proj">>, <<"env">>, <<"cfg", ".", "py">> >>,
      << <<"env">>, <<"cfg", ".", "py">> >>,
      Proj \o << <<".", "gitignore">> >> }

\* Files whose bytes are not valid text.
Undecodable == { Proj \o << <<"blob">> >> }

\* The text of a file, as its lines.
Content(f) ==
    IF f = get_code_context_root \o <<ReadmeName>> THEN << <<>> >>
    ELSE IF f[Len(f)] = ReadmeName THEN << <<"# P">> >>
    ELSE IF f[Len(f)] = <<"main", ".", "js">>
         THEN << <<"<document index=\"", "1", "\">">>, <<"</document>">> >>
    ELSE IF f[Len(f)] = <<".", "gitignore">>
         THEN << <<"#", "env">>, <<" ">>, <<"env", "/", " ">>,
                 <<"*", ".", "js">> >>
    ELSE << <<"x=1">> >>

NoPath == << <<"?">> >>

DirsOf(fileset) ==
    UNION { { SubSeq(f, 1, k) : k \in 0..(Len(f) - 1) } : f \in fileset }

\* A file system: its files and the directories that hold them.
FileSystem(fileset) == [files |-> fileset, dirs |-> DirsOf(fileset)]

\* The file or directory a path names, following ".." through existing
\* directories; NoPath when a step fails.
RECURSIVE RealFrom(_, _, _)
RealFrom(files, cur, rest) ==
    IF rest = <<>> THEN cur
    ELSE IF cur \notin files.dirs THEN NoPath
    ELSE IF Head(rest) = DotDot
         THEN RealFrom(files, Parent(cur), Tail(rest))
    ELSE LET nxt == Append(cur, Head(rest))
         IN  IF nxt \in files.files \/ nxt \in files.dirs
             THEN RealFrom(files, nxt, Tail(rest))
             ELSE NoPath

Real(files, p) == RealFrom(files, <<>>, p)

IsFile(files, p) == Real(files, p) \in files.files

IsDir(files, p) == Real(files, p) \in files.dirs

Exists(files, p) ==
    LET r == Real(files, p) IN r \in files.files \/ r \in files.dirs

\* The names in the directory d.
ListingAt(files, d) ==
    { f[Len(d) + 1] : f \in { g \in files.files : Len(g) > Len(d)
                                             /\ SubSeq(g, 1, Len(d)) = d } }

Listing(files, p) == ListingAt(files, Real(files, p))

\* sorted(names): the name with r - 1 names below it comes r-th.
SortedNames(S) ==
    [r \in 1..Cardinality(S) |->
        CHOOSE n \in S : Cardinality({ m \in S : StrLess(m, n) }) = r - 1]

(* ------------------------------ Document ------------------------------ *)

\* Optional values: <<>> is None, <<v>> is v.
None == <<>>

EmptyText == << <<>> >>

\* "if doc.type:" and "if doc.instructions:": None and "" are false.
TruthyType(opt) == opt # None /\ opt[1] # ""

TruthyText(opt) == opt # None /\ opt[1] # EmptyText

is_readme_of(file_path) == EndsWith(file_path, ReadmeName)

\* Document(...), with type and instructions set for a README.
NewDocument(file_path, index, content, is_readme) ==
    [index |-> index,
     source |-> file_path,
     content |-> content,
     is_readme |-> is_readme,
     depth |-> Parts(file_path),
     type |-> IF is_readme THEN <<"readme">> ELSE None,
     instructions |-> IF is_readme THEN <<content>> ELSE None]

\* The body of "with open(file_path)": the read fails on undecodable bytes.
ReadDocument(file_path, index, processed, real) ==
    IF real \in Undecodable
    THEN [doc |-> None, processed_files |-> processed]
    ELSE [doc |-> <<NewDocument(file_path, index, Content(real),
                                is_readme_of(file_path))>>,
          processed_files |-> processed \cup {file_path}]

\* from_file without the look-up in processed_files.
from_file_no_dedup(files, file_path, index, processed, extensions) ==
    IF /\ extensions # <<>>
       /\ ~ \E k \in 1..Len(extensions) : EndsWith(file_path, extensions[k])
    THEN [doc |-> None, processed_files |-> processed]
    ELSE ReadDocument(file_path, index, processed,
                      Real(files, PathOf(file_path)))

\* from_file without the extension filter.
from_file_no_filter(files, file_path, index, processed, extensions) ==
    IF file_path \in processed
    THEN [doc |-> None, processed_files |-> processed]
    ELSE ReadDocument(file_path, index, processed,
                      Real(files, PathOf(file_path)))

\* Document.from_file: the Document (or None) and the de-duplication set
\* afterwards.
from_file(files, file_path, index, processed, extensions) ==
    IF file_path \in processed
    THEN [doc |-> None, processed_files |-> processed]
    ELSE IF /\ extensions # <<>>
            /\ ~ \E k \in 1..Len(extensions) : EndsWith(file_path, extensions[k])
    THEN [doc |-> None, processed_files |-> processed]
    ELSE ReadDocument(file_path, index, processed,
                      Real(files, PathOf(file_path)))

(* --------------------------- resolve, ignore -------------------------- *)

\* The choice among the direct and the auto-prefixed path.
ChoosePath(files, codebase, subpath, direct_path, prefixed_path) ==
    IF Exists(files, direct_path) THEN direct_path
    ELSE IF subpath[1] # codebase /\ Exists(files, prefixed_path)
    THEN prefixed_path
    ELSE direct_path

ResolveParts(files, code_root, codebase, subpath) ==
    IF subpath = <<>> THEN PathJoin(code_root, codebase)
    ELSE IF Len(subpath) = 1 /\ subpath[1] = <<"tests">>
    THEN PathJoin(PathJoin(code_root, codebase), <<"tests">>)
    ELSE ChoosePath(files, codebase, subpath,
             PathJoin(PathJoin(code_root, codebase), JoinWith(subpath, "/")),
             PathJoin(PathJoin(PathJoin(code_root, codebase), codebase),
                      JoinWith(subpath, "/")))

ResolveSplit(files, parts) ==
    IF parts = <<>> THEN [raised |-> TRUE, path |-> NoPath]
    ELSE [raised |-> FALSE,
          path |-> ResolveParts(files, get_code_context_root, parts[1],
                                Tail(parts))]

\* resolve_codebase_path: raised is the BadArgumentUsage exit.
resolve_codebase_path(files, path_str) ==
    ResolveSplit(files, Split(path_str, "/"))

\* os.path.join(root, name)
OsJoin(root, name) ==
    IF EndsWith(root, <<"/">>) THEN root \o name ELSE root \o <<"/">> \o name

\* The rules among the lines of a .gitignore.
Rules(lines) ==
    [k \in 1..Len(lines) |-> Strip(lines[k])]

GitignoreLines(files, gitignore_path) ==
    IF IsFile(files, gitignore_path)
    THEN Rules(SelectSeq(Content(Real(files, gitignore_path)),
                   LAMBDA line : Strip(line) # <<>>
                                 /\ ~StartsWith(line, <<"#">>)))
    ELSE <<>>

read_gitignore(files, path) ==
    GitignoreLines(files, PathOf(OsJoin(path, <<".", "gitignore">>)))

should_ignore(files, path, gitignore_rules) ==
    LET fname == Basename(path)
    IN  \E k \in 1..Len(gitignore_rules) :
            \/ FnMatch(fname, gitignore_rules[k])
            \/ /\ IsDir(files, PathOf(path))
               /\ FnMatch(fname \o <<"/">>, gitignore_rules[k])

(* ---------------------------- collect_files --------------------------- *)

RECURSIVE WalkFiles(_, _, _)
RECURSIVE WalkDirs(_, _, _, _)
RECURSIVE WalkFilesHidden(_, _, _)
RECURSIVE WalkDirsHidden(_, _, _, _)

Joined(root, names) == [k \in 1..Len(names) |-> OsJoin(root, names[k])]

\* The entries of root that pass "Skip hidden" and "Apply .gitignore".
KeptNames(files, root, gitignore_rules) ==
    { n \in Listing(files, PathOf(root)) :
        /\ ~StartsWith(n, <<".">>)
        /\ ~should_ignore(files, OsJoin(root, n), gitignore_rules) }

FileNames(files, root, kept) ==
    { n \in kept : IsFile(files, PathOf(OsJoin(root, n))) }

DirNames(files, root, kept) ==
    { n \in kept : IsDir(files, PathOf(OsJoin(root, n))) }

\* As KeptNames, with the hidden filter on files only.
KeptNamesHidden(files, root, gitignore_rules) ==
    { n \in Listing(files, PathOf(root)) :
        /\ ~should_ignore(files, OsJoin(root, n), gitignore_rules)
        /\ IsFile(files, PathOf(OsJoin(root, n))) => ~StartsWith(n, <<".">>) }

WalkKeptHidden(files, root, kept, gitignore_rules) ==
    Joined(root, SortedNames(FileNames(files, root, kept)))
    \o WalkDirsHidden(files, root, SortedNames(DirNames(files, root, kept)),
                      gitignore_rules)

\* os.walk without the "skip hidden" filter on directories.
WalkFilesHidden(files, root, gitignore_rules) ==
    WalkKeptHidden(files, root, KeptNamesHidden(files, root, gitignore_rules),
                   gitignore_rules)

WalkDirsHidden(files, root, dirs, gitignore_rules) ==
    IF dirs = <<>> THEN <<>>
    ELSE WalkFilesHidden(files, OsJoin(root, Head(dirs)), gitignore_rules)
         \o WalkDirsHidden(files, root, Tail(dirs), gitignore_rules)

\* The sorted files of root, then the walk of its directories.
WalkKept(files, root, kept, gitignore_rules) ==
    Joined(root, SortedNames(FileNames(files, root, kept)))
    \o WalkDirs(files, root, SortedNames(DirNames(files, root, kept)),
                gitignore_rules)

\* The files os.walk(root) hands to process_file, in order, as strings.
WalkFiles(files, root, gitignore_rules) ==
    WalkKept(files, root, KeptNames(files, root, gitignore_rules),
             gitignore_rules)

WalkDirs(files, root, dirs, gitignore_rules) ==
    IF dirs = <<>> THEN <<>>
    ELSE WalkFiles(files, OsJoin(root, Head(dirs)), gitignore_rules)
         \o WalkDirs(files, root, Tail(dirs), gitignore_rules)

RECURSIVE ProcessFiles(_, _, _, _, _, _)

\* process_file: the document made, if any, is appended and counted.
ProcessNext(files, list, docs, r, current_index, extensions) ==
    ProcessFiles(files, Tail(list), docs \o r.doc, r.processed_files,
                 current_index + Len(r.doc), extensions)

\* process_file over a list of file paths.
ProcessFiles(files, list, docs, processed, current_index, extensions) ==
    IF list = <<>> THEN [documents |-> docs, processed_files |-> processed]
    ELSE ProcessNext(files, list, docs,
             from_file(files, Head(list), current_index, processed,
                       extensions),
             current_index, extensions)

\* The paths collect_files hands to process_file.
FilesToProcess(files, path, gitignore_rules) ==
    IF IsFile(files, PathOf(path)) THEN <<path>>
    ELSE IF IsDir(files, PathOf(path))
    THEN WalkFiles(files, path, gitignore_rules)
    ELSE <<>>

collect_files(files, path, gitignore_rules, processed, index, extensions) ==
    ProcessFiles(files, FilesToProcess(files, path, gitignore_rules), <<>>,
                 processed, index, extensions)

(* ----------------------------- find_readmes --------------------------- *)

ReadmeKeyLess(p, q) ==
    \/ Len(p) < Len(q)
    \/ Len(p) = Len(q) /\ StrLess(Lower(Str(p)), Lower(Str(q)))

\* list.sort by key, stable: an element comes after those with a smaller
\* key and those with an equal key that stood before it.
ReadmeRank(list, i) ==
    Cardinality({ k \in 1..Len(list) :
        \/ ReadmeKeyLess(list[k], list[i])
        \/ ~ReadmeKeyLess(list[i], list[k]) /\ k < i }) + 1

SortReadmes(list) ==
    [r \in 1..Len(list) |->
        list[CHOOSE i \in 1..Len(list) : ReadmeRank(list, i) = r]]

\* The root README is appended unless it was found on the way up.
WithRootReadme(files, found, root_readme) ==
    IF /\ Exists(files, root_readme)
       /\ \A k \in 1..Len(found) : found[k] # root_readme
    THEN Append(found, root_readme)
    ELSE found

\* find_readmes after its upward loop: the root README, then the sort.
FinishReadmes(files, found) ==
    SortReadmes(WithRootReadme(files, found,
                               PathJoin(get_code_context_root, ReadmeName)))

(* ------------------------------- ordering ----------------------------- *)

\* The sort key without its first component.
DocKeyLessNoFlag(a, b) ==
    \/ a.depth < b.depth
    \/ a.depth = b.depth /\ StrLess(a.source, b.source)

\* The sort key without its depth component.
DocKeyLessNoDepth(a, b) ==
    \/ a.is_readme /\ ~b.is_readme
    \/ a.is_readme = b.is_readme /\ StrLess(a.source, b.source)

\* The sort key (not is_readme, depth, source), compared as tuples.
DocKeyLess(a, b) ==
    \/ a.is_readme /\ ~b.is_readme
    \/ /\ a.is_readme = b.is_readme
       /\ \/ a.depth < b.depth
          \/ a.depth = b.depth /\ StrLess(a.source, b.source)

\* documents.sort by key, stable.
DocRank(list, i) ==
    Cardinality({ k \in 1..Len(list) :
        \/ DocKeyLess(list[k], list[i])
        \/ ~DocKeyLess(list[i], list[k]) /\ k < i }) + 1

SortDocs(list) ==
    [r \in 1..Len(list) |->
        list[CHOOSE i \in 1..Len(list) : DocRank(list, i) = r]]

\* The provisional indices kept.
ReindexSkipped(list) == list

\* for i, doc in enumerate(documents, 1): doc.index = i
Reindex(list) == [k \in 1..Len(list) |-> [list[k] EXCEPT !.index = k]]

(* ------------------------------ formatting ---------------------------- *)

DocumentOpen(index) == <<"<document index=\"", ToString(index), "\">">>

DocumentClose == <<"</document>">>

\* The raw block without the README markers.
format_document_unmarked(doc, is_raw) ==
    IF is_raw
    THEN <<doc.source, <<"---">>>> \o doc.content \o << <<"---">> >>
    ELSE <<DocumentOpen(doc.index),
           <<"<source>">> \o doc.source \o <<"</source>">> >>
         \o (IF TruthyType(doc.type)
             THEN << <<"<type>", doc.type[1], "</type>">> >> ELSE <<>>)
         \o (IF TruthyText(doc.instructions)
             THEN << <<"<instructions>">> >> \o doc.instructions[1]
                  \o << <<"</instructions>">> >>
             ELSE << <<"<document_content>">> >> \o doc.content
                  \o << <<"</document_content>">> >>)
         \o <<DocumentClose>>

\* format_document: the lines of the string it returns.
format_document(doc, is_raw) ==
    IF is_raw
    THEN <<doc.source, <<"---">>>>
         \o (IF doc.is_readme THEN << <<"### README START ###">> >> ELSE <<>>)
         \o doc.content
         \o (IF doc.is_readme THEN << <<"### README END ###">> >> ELSE <<>>)
         \o << <<"---">> >>
    ELSE <<DocumentOpen(doc.index),
           <<"<source>">> \o doc.source \o <<"</source>">> >>
         \o (IF TruthyType(doc.type)
             THEN << <<"<type>", doc.type[1], "</type>">> >> ELSE <<>>)
         \o (IF TruthyText(doc.instructions)
             THEN << <<"<instructions>">> >> \o doc.instructions[1]
                  \o << <<"</instructions>">> >>
             ELSE << <<"<document_content>">> >> \o doc.content
                  \o << <<"</document_content>">> >>)
         \o <<DocumentClose>>

\* "\n".join(blocks), as lines.
RECURSIVE JoinLines(_)
JoinLines(blocks) ==
    IF blocks = <<>> THEN EmptyText
    ELSE IF Len(blocks) = 1 THEN Head(blocks)
    ELSE Head(blocks) \o JoinLines(Tail(blocks))

Wrapped(blocks, is_raw) ==
    IF is_raw THEN blocks
    ELSE << << <<"<documents>">> >> >> \o blocks
         \o << << <<"</documents>">> >> >>

\* The list output_lines of cli.
OutputLines(docs, is_raw) ==
    Wrapped([k \in 1..Len(docs) |-> format_document(docs[k], is_raw)], is_raw)

(* --------------------------------- cli -------------------------------- *)

MaxTokens == 2

\* The path tokens a PATHS argument is made of.
TokenStrings ==
    { <<>>,
      <<"proj">>,
      <<"proj", "/", "env">>,
      <<"proj", "/", "tests">>,
      <<"proj", "/", "/", "env">>,
      <<"proj", "/", ".", "git">>,
      <<"proj", "/", "env", "/", ".", ".">>,
      <<"missing">> }

RECURSIVE TokenLists(_)
TokenLists(n) ==
    IF n = 0 THEN { <<>> }
    ELSE { <<t>> \o l : t \in TokenStrings, l \in TokenLists(n - 1) }

PathsArguments ==
    { JoinWith(l, ",") : l \in UNION { TokenLists(n) : n \in 1..MaxTokens } }

ExtensionOptions == { <<>>, << <<".", "py">>, <<".", "js">> >> }

Init ==
    /\ fs \in { FileSystem(BaseFiles \cup opt) : opt \in SUBSET OptionalFiles }
    /\ paths \in PathsArguments
    /\ extension \in ExtensionOptions
    /\ raw = FALSE
    /\ pc = "loop"
    /\ tokens = Split(paths, ",")
    /\ tok = <<>>
    /\ path_obj = NoPath
    /\ current = NoPath
    /\ readmes = <<>>
    /\ processed_files = {}
    /\ documents = <<>>
    /\ next_index = 1
    /\ output_lines = <<>>
    /\ output_content = <<>>

\* The token is resolved: BadArgumentUsage ends the run.
Resolution(path_str, r) ==
    /\ tok' = path_str
    /\ path_obj' = r.path
    /\ pc' = IF r.raised THEN "usage_error" ELSE "resolved"

\* for path_str in paths.split(','): strip and resolve the next token.
ResolveToken ==
    /\ pc = "loop"
    /\ tokens # <<>>
    /\ Resolution(Strip(Head(tokens)),
                  resolve_codebase_path(fs, Strip(Head(tokens))))
    /\ tokens' = Tail(tokens)
    /\ UNCHANGED <<fs, paths, extension, raw, current, readmes,
                   processed_files, documents, next_index, output_lines,
                   output_content>>

\* "break" in place of "continue".
SkipMissingBreaks ==
    /\ pc = "resolved"
    /\ ~Exists(fs, path_obj)
    /\ pc' = "loop"
    /\ tokens' = <<>>
    /\ UNCHANGED <<fs, paths, extension, raw, tok, path_obj, current,
                   readmes, processed_files, documents, next_index,
                   output_lines, output_content>>

\* if not path_obj.exists(): warning, continue
SkipMissing ==
    /\ pc = "resolved"
    /\ ~Exists(fs, path_obj)
    /\ pc' = "loop"
    /\ UNCHANGED <<fs, paths, extension, raw, tokens, tok, path_obj, current,
                   readmes, processed_files, documents, next_index,
                   output_lines, output_content>>

\* find_readmes is entered: current = path
StartReadmes ==
    /\ pc = "resolved"
    /\ Exists(fs, path_obj)
    /\ current' = path_obj
    /\ readmes' = <<>>
    /\ pc' = "walk"
    /\ UNCHANGED <<fs, paths, extension, raw, tokens, tok, path_obj,
                   processed_files, documents, next_index, output_lines,
                   output_content>>

\* One iteration of the upward loop of find_readmes.
WalkUp ==
    /\ pc = "walk"
    /\ current # get_code_context_root
    /\ current # Home
    /\ readmes' = IF Exists(fs, PathJoin(current, ReadmeName))
                  THEN Append(readmes, PathJoin(current, ReadmeName))
                  ELSE readmes
    /\ current' = Parent(current)
    /\ UNCHANGED <<fs, paths, extension, raw, pc, tokens, tok, path_obj,
                   processed_files, documents, next_index, output_lines,
                   output_content>>

RECURSIVE InjectReadmes(_, _, _, _, _, _)

\* readme_docs.extend(...); next_index += len(readme_docs)
InjectNext(files, list, docs, processed, index, extensions) ==
    InjectReadmes(files, Tail(list), docs, processed, index + Len(docs),
                  extensions)

InjectOne(files, list, readme_docs, r, index, extensions) ==
    InjectNext(files, list, readme_docs \o r.documents, r.processed_files,
               index, extensions)

\* The README injections of one token: collect_files on each README.
InjectReadmes(files, list, readme_docs, processed, index, extensions) ==
    IF list = <<>>
    THEN [documents |-> readme_docs, processed_files |-> processed,
          next_index |-> index]
    ELSE InjectOne(files, list, readme_docs,
             collect_files(files, Str(Head(list)), <<>>, processed, index,
                           extensions),
             index, extensions)

\* documents.extend(readme_docs); documents.extend(regular_docs)
Extended(docs, rd, rg) ==
    [documents |-> docs \o rd.documents \o rg.documents,
     processed_files |-> rg.processed_files,
     next_index |-> rd.next_index + Len(rg.documents)]

\* The regular files of the token, after its README injections rd.
WithRegular(files, path, docs, rd, extensions) ==
    Extended(docs, rd,
        collect_files(files, path, read_gitignore(files, path),
                      rd.processed_files, rd.next_index, extensions))

\* The loop body of cli after find_readmes has returned found: the README
\* injections, then the regular files of the token, both appended.
LoopBody(files, path, found, docs, processed, index, extensions) ==
    WithRegular(files, Str(path), docs,
        InjectReadmes(files, found, <<>>, processed, index, extensions),
        extensions)

Collection(found, r) ==
    /\ readmes' = found
    /\ processed_files' = r.processed_files
    /\ next_index' = r.next_index
    /\ documents' = r.documents

\* find_readmes returns and the rest of the loop body runs.
CollectToken ==
    /\ pc = "walk"
    /\ current = get_code_context_root \/ current = Home
    /\ Collection(FinishReadmes(fs, readmes),
                  LoopBody(fs, path_obj, FinishReadmes(fs, readmes),
                           documents, processed_files, next_index, extension))
    /\ pc' = "loop"
    /\ UNCHANGED <<fs, paths, extension, raw, tokens, tok, path_obj, current,
                   output_lines, output_content>>

\* documents.sort(...) and the re-indexing.
SortDocuments ==
    /\ pc = "loop"
    /\ tokens = <<>>
    /\ documents' = Reindex(SortDocs(documents))
    /\ pc' = "render"
    /\ UNCHANGED <<fs, paths, extension, raw, tokens, tok, path_obj, current,
                   readmes, processed_files, next_index, output_lines,
                   output_content>>

\* The output: one block per document, wrapped in <documents> unless raw.
\* Nothing reads the --raw flag before this step, so it is drawn here.
Render ==
    /\ pc = "render"
    /\ \E flag \in BOOLEAN :
          /\ raw' = flag
          /\ output_lines' = OutputLines(documents, flag)
    /\ output_content' = JoinLines(output_lines')
    /\ pc' = "done"
    /\ UNCHANGED <<fs, paths, extension, tokens, tok, path_obj, current,
                   readmes, processed_files, documents, next_index>>

Next ==
    \/ ResolveToken
    \/ SkipMissing
    \/ StartReadmes
    \/ WalkUp
    \/ CollectToken
    \/ SortDocuments
    \/ Render

Spec == Init /\ [][Next]_vars

(* ------------------- the run as a function of its input --------------- *)

\* The upward loop of find_readmes, for a path from which it ends.
RECURSIVE AncestorReadmes(_, _)
AncestorReadmes(files, cur) ==
    IF cur = get_code_context_root \/ cur = Home THEN <<>>
    ELSE (IF Exists(files, PathJoin(cur, ReadmeName))
          THEN <<PathJoin(cur, ReadmeName)>> ELSE <<>>)
         \o AncestorReadmes(files, Parent(cur))

RECURSIVE RunTokens(_, _, _, _)

\* One turn of the for loop of cli, for a token resolved to path.
RunResolved(files, toks, st, extensions, path) ==
    IF ~Exists(files, path)
    THEN RunTokens(files, Tail(toks), st, extensions)
    ELSE RunTokens(files, Tail(toks),
             LoopBody(files, path,
                 FinishReadmes(files, AncestorReadmes(files, path)),
                 st.documents, st.processed_files, st.next_index, extensions),
             extensions)

\* The for loop of cli over a list of tokens, from a loop state.
RunTokens(files, toks, st, extensions) ==
    IF toks = <<>> THEN st
    ELSE RunResolved(files, toks, st, extensions,
                     resolve_codebase_path(files, Strip(Head(toks))).path)

\* The final document list of cli for a list of tokens.
CliDocuments(files, toks, extensions) ==
    Reindex(SortDocs(RunTokens(files, toks,
        [documents |-> <<>>, processed_files |-> {}, next_index |-> 1],
        extensions).documents))

TypeOK == pc \in {"loop", "resolved", "walk", "render", "done", "usage_error"}

(* -------------------------------- claims ------------------------------ *)

Final == pc \in {"render", "done"}

\* The tokens of the PATHS argument, as the loop sees them.
ArgTokens == [k \in 1..Len(Split(paths, ",")) |-> Strip(Split(paths, ",")[k])]

Resolved(t) == resolve_codebase_path(fs, t).path

PresentTokens == SelectSeq(ArgTokens, LAMBDA t : Exists(fs, Resolved(t)))

NoEmptyToken == \A k \in 1..Len(ArgTokens) : ArgTokens[k] # <<>>

\* The document list as collected, before the sort.
Collected ==
    RunTokens(fs, PresentTokens,
              [documents |-> <<>>, processed_files |-> {}, next_index |-> 1],
              extension).documents

\* The files a token reaches: its ancestor READMEs and its own tree.
Reached(t) ==
    LET found == FinishReadmes(fs, AncestorReadmes(fs, Resolved(t)))
        walked == IF IsFile(fs, Resolved(t)) THEN <<Str(Resolved(t))>>
                  ELSE WalkFiles(fs, Str(Resolved(t)), <<>>)
    IN  { Str(found[k]) : k \in 1..Len(found) }
        \cup { walked[k] : k \in 1..Len(walked) }

\* C1: no two Documents of the final document list have the same source
\* path, whatever tokens were requested.
C1_UniqueSources ==
    Final => \A i, j \in 1..Len(documents) :
                 i # j => documents[i].source # documents[j].source

\* Two tokens were processed whose trees overlap and that reach the same
\* README, and that README is in the output.
C1_Witness ==
    /\ pc = "done"
    /\ NoEmptyToken
    /\ Len(PresentTokens) = 2
    /\ PresentTokens[1] # PresentTokens[2]
    /\ \E k \in 1..Len(documents) :
          /\ documents[k].is_readme
          /\ documents[k].source \in Reached(PresentTokens[1])
          /\ documents[k].source \in Reached(PresentTokens[2])
    /\ \E k \in 1..Len(documents) :
          /\ ~documents[k].is_readme
          /\ documents[k].source \in Reached(PresentTokens[1])
          /\ documents[k].source \in Reached(PresentTokens[2])

\* C2: in the final list every README-flagged Document has a smaller final
\* index than every Document that is not README-flagged.
C2_ReadmesFirst ==
    Final =>
        \A i, j \in 1..Len(documents) :
            documents[i].is_readme /\ ~documents[j].is_readme
                => documents[i].index < documents[j].index /\ i < j

\* A run in which a file that is not a README was collected before a README.
C2_Witness ==
    /\ pc = "done"
    /\ NoEmptyToken
    /\ \E i, j \in 1..Len(Collected) :
          i < j /\ ~Collected[i].is_readme /\ Collected[j].is_readme

IsDocumentOpen(line) == Len(line) = 3 /\ line[1] = "<document index=\"" /\ line[3] = "\">"

OpenTags(lines) == SelectSeq(lines, IsDocumentOpen)

CloseTags(lines) == SelectSeq(lines, LAMBDA line : line = DocumentClose)

Sorted(list) ==
    \A i, j \in 1..Len(list) : i < j => ~DocKeyLess(list[j], list[i])

TagFree(list) ==
    \A k \in 1..Len(list) :
        OpenTags(list[k].content) = <<>> /\ CloseTags(list[k].content) = <<>>

\* C3 as stated: the final indices are 1..N in sort order and the tagged
\* output holds exactly N document open tags, with indices 1..N in
\* order, and N close tags.
C3_Original ==
    pc = "done" /\ ~raw =>
        /\ \A k \in 1..Len(documents) : documents[k].index = k
        /\ OpenTags(output_content)
              = [k \in 1..Len(documents) |-> DocumentOpen(k)]
        /\ Len(CloseTags(output_content)) = Len(documents)

\* C3 amended: the final indices are 1..N in sort order; the tagged output
\* is N blocks between <documents> and </documents>, block k opened by the
\* document tag with index k and closed by a close tag; the output holds
\* exactly N open and close tags when no content holds such a line.
C3_Indices ==
    pc = "done" =>
        /\ Sorted(documents)
        /\ \A k \in 1..Len(documents) : documents[k].index = k
        /\ ~raw =>
              /\ Len(output_lines) = Len(documents) + 2
              /\ \A k \in 1..Len(documents) :
                    LET block == output_lines[k + 1]
                    IN  /\ block[1] = DocumentOpen(k)
                        /\ block[Len(block)] = DocumentClose
              /\ TagFree(documents) =>
                    /\ OpenTags(output_content)
                          = [k \in 1..Len(documents) |-> DocumentOpen(k)]
                    /\ Len(CloseTags(output_content)) = Len(documents)

\* A tagged run of several documents whose provisional indices were not
\* their final ones.
C3_Witness ==
    /\ pc = "done"
    /\ NoEmptyToken
    /\ ~raw
    /\ Len(documents) >= 3
    /\ TagFree(documents)
    /\ \E k \in 1..Len(Collected) : Collected[k].index # k

\* C4: of two README Documents of the final list, the one with fewer path
\* segments comes first.
C4_ReadmeDepthOrder ==
    Final =>
        \A i, j \in 1..Len(documents) :
            /\ documents[i].is_readme
            /\ documents[j].is_readme
            /\ Parts(documents[i].source) < Parts(documents[j].source)
            => i < j

\* READMEs at three depths in the output, collected deepest first.
C4_Witness ==
    /\ pc = "done"
    /\ NoEmptyToken
    /\ \E i, j, k \in 1..Len(documents) :
          /\ documents[i].is_readme /\ documents[j].is_readme
          /\ documents[k].is_readme
          /\ Parts(documents[i].source) < Parts(documents[j].source)
          /\ Parts(documents[j].source) < Parts(documents[k].source)
    /\ \E i, j \in 1..Len(Collected) :
          /\ i < j
          /\ Collected[i].is_readme /\ Collected[j].is_readme
          /\ Collected[i].depth > Collected[j].depth

\* ConfigRoot/codebase/subpath and ConfigRoot/codebase/codebase/subpath as
\* directories below ConfigRoot.
DirectBelowRoot(t) ==
    get_code_context_root \o SelectNames(Split(t, "/"))

PrefixedBelowRoot(t) ==
    get_code_context_root \o SelectNames(<<Split(t, "/")[1]>> \o Split(t, "/"))

\* C5: for a token with a subpath other than "tests", resolve_codebase_path
\* returns ConfigRoot/codebase/subpath if that exists, else
\* ConfigRoot/codebase/codebase/subpath if that exists and the subpath does
\* not start with the codebase name, else ConfigRoot/codebase/subpath.
C5_Resolution ==
    LET parts == Split(tok, "/")
    IN  /\ pc = "resolved"
        /\ Len(parts) > 1
        /\ Tail(parts) # << <<"tests">> >>
        => path_obj =
              IF Exists(fs, DirectBelowRoot(tok)) THEN DirectBelowRoot(tok)
              ELSE IF /\ parts[2] # parts[1]
                      /\ Exists(fs, PrefixedBelowRoot(tok))
              THEN PrefixedBelowRoot(tok)
              ELSE DirectBelowRoot(tok)

\* C6: an empty token is rejected: resolve_codebase_path returns no
\* directory for it and nothing is collected on its behalf.
C6_EmptyTokenRejected ==
    [][ /\ (pc' = "resolved" /\ tok' = <<>> => ~IsDir(fs, path_obj'))
        /\ (pc = "walk" /\ tok = <<>> => documents' = documents) ]_vars

\* C7: with a non-empty extension filter every Document's source path ends
\* with one of the suffixes, README injections included.
C7_ExtensionFilter ==
    extension # <<>> =>
        \A k \in 1..Len(documents) :
            \E e \in 1..Len(extension) :
                EndsWith(documents[k].source, extension[e])

\* A filtered run that kept a file and dropped a README and another file
\* it reached.
C7_Witness ==
    /\ pc = "done"
    /\ NoEmptyToken
    /\ extension # <<>>
    /\ documents # <<>>
    /\ \E t \in { PresentTokens[k] : k \in 1..Len(PresentTokens) } :
          \E f, g \in Reached(t) :
              /\ EndsWith(f, ReadmeName)
              /\ ~EndsWith(g, ReadmeName)
              /\ \A k \in 1..Len(documents) :
                    documents[k].source # f /\ documents[k].source # g

\* C8: a Document is README-flagged, with type "readme" and its content as
\* instructions, exactly when the base name of its file is README.md.
C8_ReadmeIffBasename ==
    \A k \in 1..Len(documents) :
        LET d == documents[k]
            named == Basename(d.source) = ReadmeName
        IN  /\ d.is_readme <=> named
            /\ d.type = (IF named THEN <<"readme">> ELSE None)
            /\ d.instructions = (IF named THEN <<d.content>> ELSE None)

Hidden(name) == StartsWith(name, <<".">>) /\ name # DotDot

\* C9 as stated: no Document lies below a directory whose name starts with
\* a dot, whatever the tokens.
C9_Original ==
    \A k \in 1..Len(documents) :
        LET names == PathOf(documents[k].source)
        IN  \A n \in 1..(Len(names) - 1) : ~Hidden(names[n])

\* C9 amended: a directory whose name starts with a dot is never descended
\* into by the walk below a token's resolved path: a Document lies below
\* such a directory only if that directory is part of the resolved path of
\* a requested token.
C9_HiddenNotDescended ==
    \A k \in 1..Len(documents) :
        LET names == PathOf(documents[k].source)
        IN  \A n \in 1..(Len(names) - 1) :
                Hidden(names[n]) =>
                    \E m \in 1..Len(ArgTokens) :
                        /\ Len(Resolved(ArgTokens[m])) >= n
                        /\ SubSeq(Resolved(ArgTokens[m]), 1, n)
                              = SubSeq(names, 1, n)

GitHead == Proj \o << <<".", "git">>, <<"HEAD">> >>

\* A walk that started above .git, under .gitignore rules, collected files
\* and left .git/HEAD out.
C9_Witness ==
    /\ pc = "done"
    /\ NoEmptyToken
    /\ GitHead \in fs.files
    /\ Proj \o << <<".", "gitignore">> >> \in fs.files
    /\ \E m \in 1..Len(ArgTokens) : Resolved(ArgTokens[m]) = Proj
    /\ \E k \in 1..Len(documents) :
          StartsWith(documents[k].source, Str(Proj))
    /\ \A k \in 1..Len(documents) :
          Real(fs, PathOf(documents[k].source)) # GitHead

\* C10: a token whose resolved path does not exist leaves the document
\* list and the de-duplication set as they were, the remaining tokens are
\* processed, and the final documents and output are those of the run
\* without that token.
C10_MissingTokenSkipped ==
    /\ [](pc = "done" =>
            /\ tokens = <<>>
            /\ documents = CliDocuments(fs, PresentTokens, extension)
            /\ output_content
                  = JoinLines(OutputLines(
                        CliDocuments(fs, PresentTokens, extension), raw)))
    /\ [][pc = "resolved" /\ ~Exists(fs, path_obj) =>
            /\ documents' = documents
            /\ processed_files' = processed_files
            /\ next_index' = next_index
            /\ tokens' = tokens
            /\ pc' = "loop"]_vars

\* A run whose first token did not exist and whose second one gave
\* documents.
C10_Witness ==
    /\ pc = "done"
    /\ NoEmptyToken
    /\ Len(ArgTokens) = 2
    /\ ~Exists(fs, Resolved(ArgTokens[1]))
    /\ Exists(fs, Resolved(ArgTokens[2]))
    /\ documents # <<>>

\* The lines of one raw block as the claim lists them, closed by closing.
RawBlock(doc, closing) ==
    <<doc.source, <<"---">>>>
    \o (IF doc.is_readme THEN << <<"### README START ###">> >> ELSE <<>>)
    \o doc.content
    \o (IF doc.is_readme THEN << <<"### README END ###">> >> ELSE <<>>)
    \o closing

\* The raw output made of such blocks, one per document, in final order.
RawOutput(closing) ==
    JoinLines([k \in 1..Len(documents) |-> RawBlock(documents[k], closing)])

\* C11 as stated: in raw format each Document is rendered as the source
\* path, a line ---, for a README the START marker, the content, for a
\* README the END marker, a blank line and a closing line ---.
C11_Original ==
    pc = "done" /\ raw => output_content = RawOutput(<< <<>>, <<"---">> >>)

\* C11: in raw format each Document is rendered as exactly the source
\* path, a line ---, for a README only the START marker, the content
\* verbatim, for a README only the END marker, and the closing line ---,
\* with no blank line added before the closing line; the output is these
\* blocks in final order.
C11_RawBlocks ==
    pc = "done" /\ raw =>
        /\ output_content = RawOutput(<< <<"---">> >>)
        /\ Len(output_lines) = Len(documents)
        /\ \A k \in 1..Len(documents) :
              /\ Len(output_lines[k])
                    = Len(documents[k].content)
                      + (IF documents[k].is_readme THEN 5 ELSE 3)
              /\ output_lines[k][Len(output_lines[k])] = <<"---">>
              /\ output_lines[k][Len(output_lines[k]) - 1]
                    = IF documents[k].is_readme
                      THEN <<"### README END ###">>
                      ELSE documents[k].content[Len(documents[k].content)]

\* A raw output that holds a README with content and a file that is not
\* a README.
C11_Witness ==
    /\ pc = "done"
    /\ raw
    /\ NoEmptyToken
    /\ \E i, j \in 1..Len(documents) :
          /\ documents[i].is_readme
          /\ documents[i].content # EmptyText
          /\ ~documents[j].is_readme

\* The lines of one tagged block as the claim lists them.
TaggedBlock(doc) ==
    <<DocumentOpen(doc.index),
      <<"<source>">> \o doc.source \o <<"</source>">> >>
    \o (IF doc.is_readme
        THEN << <<"<type>", "readme", "</type>">>, <<"<instructions>">> >>
             \o doc.content \o << <<"</instructions>">> >>
        ELSE << <<"<document_content>">> >> \o doc.content
             \o << <<"</document_content>">> >>)
    \o <<DocumentClose>>

\* C12: in tagged format every README-flagged Document, whatever its
\* content, is rendered with the type tag readme followed by an
\* instructions block that holds the content and with no document_content
\* block, and every other Document with a document_content block and no
\* type or instructions.
C12_TaggedBlocks ==
    pc = "done" /\ ~raw =>
        /\ Len(output_lines) = Len(documents) + 2
        /\ \A k \in 1..Len(documents) :
              output_lines[k + 1] = TaggedBlock(documents[k])

\* Directory p lies strictly above directory q.
Above(p, q) == Len(p) < Len(q) /\ SubSeq(q, 1, Len(p)) = p

\* current after n more iterations of the upward loop.
RECURSIVE Up(_, _)
Up(p, n) == IF n = 0 THEN p ELSE Up(Parent(p), n - 1)

\* C13: for every token whose resolved path exists, the upward walk of
\* find_readmes ends at ConfigRoot or at the home directory: from each
\* directory the walk is at, a number of further iterations no larger than
\* the directory's depth brings it to ConfigRoot or home, and no directory
\* it visits on the way lies above ConfigRoot.
C13_WalkStops ==
    pc = "walk" =>
        \E n \in 0..Len(current) :
            /\ Up(current, n) \in {get_code_context_root, Home}
            /\ \A m \in 0..(n - 1) :
                  ~Above(Up(current, m), get_code_context_root)

====
